---- MODULE Spec2Model ----
(***************************************************************************)
(* Model of HeuristicSolver (src/src/cflp/solvers/heuristic_solver.py),    *)
(* the greedy constructive heuristic with local improvement for the        *)
(* capacitated facility location problem.                                  *)
(*                                                                         *)
(* Numbers.  The program computes with floats; the model computes with     *)
(* exact fixed-point numbers.  A demand, a capacity or an assigned amount  *)
(* is an integer number of ticks, one tick being 1e-6 demand units, so the *)
(* tolerance 1e-6 of the source is exactly one tick.  A cost is a pair     *)
(* <<whole, micro>> standing for whole + micro * 1e-6, normalised to       *)
(* 0 <= micro < 1e6 (a distance times an amount in ticks does not fit the  *)
(* integers of the checker).  Float rounding is not modelled.              *)
(*                                                                         *)
(* Indices.  Python sequences are 0-based, the sequences here 1-based.     *)
(* A Python dict is a sequence of records in insertion order, with a key   *)
(* field.                                                                  *)
(***************************************************************************)
EXTENDS Integers, Sequences, FiniteSets, TLC

\* ---------------------------------------------------------------- bounds
MaxPoints == 3
MaxSites == 2
\* The demands of an input sum to less than this many whole units, so that
\* every amount in ticks fits the integers of the checker.
MaxTotalUnits == 2140

\* ------------------------------------------------------------- constants
TicksPerUnit == 1000000
EPS == 1
DISTANCE_COST_FACTOR == 1

CAFETERIA_TYPES ==
  << [type |-> "pequena", capacity |-> 370, fixed_cost |-> 90000],
     [type |-> "media",   capacity |-> 550, fixed_cost |-> 110000],
     [type |-> "grande",  capacity |-> 700, fixed_cost |-> 140000] >>

\* A catalog with a single tier, and one with a tier of capacity zero.
SINGLE_TIER_TYPES ==
  << [type |-> "unica", capacity |-> 200, fixed_cost |-> 1000] >>

ZERO_CAPACITY_TYPES ==
  << [type |-> "media", capacity |-> 550, fixed_cost |-> 110000],
     [type |-> "nula",  capacity |-> 0,   fixed_cost |-> 1000] >>

\* The catalogs the configuration module can hold.
Catalogs == {CAFETERIA_TYPES, SINGLE_TIER_TYPES, ZERO_CAPACITY_TYPES}

\* Demands a point can have, in ticks: exactly the tolerance, just above it,
\* a load no tier is short of, a load that leaves a sliver of the largest
\* tier.
DemandValues == {1, 2, 200 * TicksPerUnit, 700 * TicksPerUnit - 1}

\* The demands tried with a catalog: half the capacity of the single tier,
\* the values above with the other catalogs.
DemandValuesOf(catalog) ==
  IF catalog = SINGLE_TIER_TYPES THEN {100 * TicksPerUnit} ELSE DemandValues

\* Coordinates of the points: they lie on the x axis.
Positions == {0, 10}

\* --------------------------------------------------------------- helpers
Min(a, b) == IF a <= b THEN a ELSE b

Max(a, b) == IF a >= b THEN a ELSE b

RECURSIVE Gcd(_, _)
Gcd(a, b) == IF b = 0 THEN a ELSE Gcd(b, a % b)

Lcm(a, b) == (a \div Gcd(a, b)) * b

RECURSIVE SumFn(_, _)
\* sum(f[k] for k in 1..n)
SumFn(f, n) == IF n = 0 THEN 0 ELSE f[n] + SumFn(f, n - 1)

\* variant: ascending by key, but equal keys in reverse order
StableSortLastFirst(s, keys) ==
  LET n == Len(s)
      Rank(k) == 1 + Cardinality({l \in 1..n :
                        \/ keys[l] < keys[k]
                        \/ (keys[l] = keys[k] /\ l > k)})
  IN [pos \in 1..n |-> s[CHOOSE k \in 1..n : Rank(k) = pos]]

\* list.sort(key=...): ascending by key, equal keys keep their order;
\* keys[k] is the key of s[k]
StableSort(s, keys) ==
  LET n == Len(s)
      Rank(k) == 1 + Cardinality({l \in 1..n :
                        \/ keys[l] < keys[k]
                        \/ (keys[l] = keys[k] /\ l < k)})
  IN [pos \in 1..n |-> s[CHOOSE k \in 1..n : Rank(k) = pos]]

\* ----------------------------------------------------------------- costs
Cost(whole, micro) == <<whole + (micro \div TicksPerUnit), micro % TicksPerUnit>>

CostAdd(a, b) == Cost(a[1] + b[1], a[2] + b[2])

CostSub(a, b) == Cost(a[1] - b[1], a[2] - b[2])

CostLeq(a, b) == a[1] < b[1] \/ (a[1] = b[1] /\ a[2] <= b[2])

ZeroCost == Cost(0, 0)

\* variant: the part of the amount below one whole unit is left out
VariableCostTruncated(distance, assigned_amount) ==
  Cost(distance * DISTANCE_COST_FACTOR * (assigned_amount \div TicksPerUnit), 0)

\* distance * DISTANCE_COST_FACTOR * assigned_amount, the amount in ticks
VariableCost(distance, assigned_amount) ==
  LET f == distance * DISTANCE_COST_FACTOR
  IN Cost(f * (assigned_amount \div TicksPerUnit),
          f * (assigned_amount % TicksPerUnit))

\* ---------------------------------------------------------------- dicts
DictHas(d, key) == \E k \in 1..Len(d) : d[k].facility_idx = key

DictGet(d, key) == d[CHOOSE k \in 1..Len(d) : d[k].facility_idx = key]

\* d[rec.facility_idx] = rec: replaces in place, else appends
DictSet(d, rec) ==
  IF DictHas(d, rec.facility_idx)
  THEN [k \in 1..Len(d) |->
          IF d[k].facility_idx = rec.facility_idx THEN rec ELSE d[k]]
  ELSE Append(d, rec)

\* variant: every entry goes, not only that of the key
DictDelAll(d, key) == <<>>

\* del d[key]
DictDel(d, key) == SelectSeq(d, LAMBDA r : r.facility_idx # key)

VARIABLES
  cafeteria_types,      \* the CAFETERIA_TYPES the solver module imported
  demand_points,        \* self.demand_points: records [id, x, y, demand]
  facility_points,      \* self.facility_points: records [id, x, y]
  distance_matrix,      \* self.distance_matrix[i][j]
  pc,                   \* position in solve()
  solution,             \* the solution dict
  facility_options,     \* the option list
  opened_facilities,    \* dict j -> [type, capacity, used_capacity, fixed_cost]
  remaining_demand,     \* dict i -> remaining demand
  facility_assignments, \* dict j -> list of <<i, assigned_amount>>
  opt_idx,              \* position of the running for loop over the options
  facilities_to_remove, \* the candidates of _local_improvement
  rem_idx               \* position of the for loop over the candidates

vars == <<cafeteria_types, demand_points, facility_points, distance_matrix,
          pc, solution,
          facility_options, opened_facilities, remaining_demand,
          facility_assignments, opt_idx, facilities_to_remove, rem_idx>>

inputs == <<cafeteria_types, demand_points, facility_points, distance_matrix>>

NumPoints == Len(demand_points)

NumSites == Len(facility_points)

TotalDemand == SumFn([i \in 1..NumPoints |-> demand_points[i].demand], NumPoints)

\* ------------------------------------------------------ distance matrix
\* math.sqrt, on the perfect squares
Sqrt(n) == CHOOSE r \in 0..n : r * r = n

\* calculate_euclidean_distance
CalculateEuclideanDistance(x1, y1, x2, y2) ==
  Sqrt((x1 - x2) * (x1 - x2) + (y1 - y2) * (y1 - y2))

\* calculate_distance_matrix
CalculateDistanceMatrix(dps, fps) ==
  [i \in 1..Len(dps) |->
     [j \in 1..Len(fps) |->
        CalculateEuclideanDistance(dps[i].x, dps[i].y, fps[j].x, fps[j].y)]]

\* -------------------------------------------------------- option ranking
NumTypes == Len(cafeteria_types)

\* Common denominator of the quotients fixed_cost / capacity of the catalog.
CostScale ==
  LET Den(t) == cafeteria_types[t].capacity
                  \div Gcd(cafeteria_types[t].fixed_cost, cafeteria_types[t].capacity)
      F[t \in 0..NumTypes] == IF t = 0 THEN 1 ELSE Lcm(F[t - 1], Den(t))
  IN F[NumTypes]

\* len(self.demand_points) if self.demand_points else 1
AvgDivisor == IF NumPoints > 0 THEN NumPoints ELSE 1

\* sum(self.distance_matrix[i][j] for i in range(len(self.demand_points)))
SumDistance(j) == SumFn([i \in 1..NumPoints |-> distance_matrix[i][j]], NumPoints)

\* cost_per_capacity + estimated_var_cost * 0.1, as the integer
\* cost_benefit * (10 * AvgDivisor * CostScale)
CostBenefit(j, config) ==
  ((config.fixed_cost * CostScale) \div config.capacity) * 10 * AvgDivisor
    + SumDistance(j) * DISTANCE_COST_FACTOR * CostScale

FacilityOption(j, config) ==
  [facility_idx |-> j,
   type         |-> config.type,
   capacity     |-> config.capacity * TicksPerUnit,
   fixed_cost   |-> Cost(config.fixed_cost, 0),
   cost_benefit |-> CostBenefit(j, config),
   avg_distance |-> <<SumDistance(j), AvgDivisor>>]

\* _calculate_facility_options: one option per site and type, sites in the
\* outer loop, types in catalog order in the inner loop
CalculateFacilityOptions ==
  [k \in 1..(NumSites * NumTypes) |->
     FacilityOption(((k - 1) \div NumTypes) + 1,
                    cafeteria_types[((k - 1) % NumTypes) + 1])]

\* variant: the list is left in the order of its enumeration
SortOptionsUnsorted(options) == options

\* facility_options.sort(key=lambda x: x["cost_benefit"])
SortOptions(options) ==
  StableSort(options, [k \in 1..Len(options) |-> options[k].cost_benefit])

\* ------------------------------------------------------ greedy assignment
\* remaining_demand[i] > 1e-6
Eligible(remaining, i) == remaining[i] > EPS

\* variant: the whole demand is assigned, whatever capacity is available
AssignAmountWholeDemand(demand, available_capacity) == demand

\* min(demand, available_capacity)
AssignAmount(demand, available_capacity) == Min(demand, available_capacity)

\* variant: the list is left in the order of the demand points
DemandDistancesUnsorted(facility_idx, remaining) ==
  LET n == Len(remaining)
      all == [i \in 1..n |-> <<i, distance_matrix[i][facility_idx], remaining[i]>>]
  IN SelectSeq(all, LAMBDA x : Eligible(remaining, x[1]))

\* the list comprehension of demand_distances and its sort by distance
DemandDistances(facility_idx, remaining) ==
  LET n == Len(remaining)
      all == [i \in 1..n |-> <<i, distance_matrix[i][facility_idx], remaining[i]>>]
      eligible == SelectSeq(all, LAMBDA x : Eligible(remaining, x[1]))
  IN StableSort(eligible, [k \in 1..Len(eligible) |-> eligible[k][2]])

RECURSIVE AssignLoop(_, _, _, _)
\* the for loop over demand_distances
AssignLoop(demand_distances, available_capacity, remaining, assignments) ==
  IF demand_distances = <<>> \/ available_capacity <= EPS
  THEN [assignments |-> assignments, remaining_demand |-> remaining]
  ELSE LET i == Head(demand_distances)[1]
           demand == Head(demand_distances)[3]
           assign_amount == AssignAmount(demand, available_capacity)
       IN AssignLoop(Tail(demand_distances),
                     available_capacity - assign_amount,
                     [remaining EXCEPT ![i] = @ - assign_amount],
                     Append(assignments, <<i, assign_amount>>))

\* _assign_demand_to_facility_with_tracking: the returned list and the
\* remaining_demand it leaves behind
AssignDemandToFacilityWithTracking(facility_idx, available_capacity, remaining) ==
  AssignLoop(DemandDistances(facility_idx, remaining), available_capacity,
             remaining, <<>>)

\* sum of the amounts of a list of <<i, assigned_amount>>
SumAssigned(assignments) ==
  SumFn([k \in 1..Len(assignments) |-> assignments[k][2]], Len(assignments))

\* sum(remaining_demand.values())
TotalRemaining(remaining) == SumFn(remaining, Len(remaining))

\* variant: the comparison of the early return the wrong way round
AllDemandSatisfiedInverted(remaining) == TotalRemaining(remaining) >= EPS

\* total_remaining <= 1e-6
AllDemandSatisfied(remaining) == TotalRemaining(remaining) <= EPS

\* ---------------------------------------------------- solution assembly
\* the dict appended to solution["facilities_opened"] for one opened facility
FacilityEntry(facility_info) ==
  [location    |-> facility_points[facility_info.facility_idx].id,
   type        |-> facility_info.type,
   coordinates |-> <<facility_points[facility_info.facility_idx].x,
                     facility_points[facility_info.facility_idx].y>>,
   fixed_cost  |-> facility_info.fixed_cost]

\* variant: the list is not emptied before it is filled
BuildFacilitiesOpenedNoReset(previous, opened) ==
  previous \o [k \in 1..Len(opened) |-> FacilityEntry(opened[k])]

\* solution["facilities_opened"] = [] and the loop over opened_facilities
BuildFacilitiesOpened(previous, opened) ==
  [k \in 1..Len(opened) |-> FacilityEntry(opened[k])]

RECURSIVE FlattenAssignments(_)
\* the pairs of facility_assignments in the order of its two nested loops,
\* each as <<facility_idx, demand_idx, assigned_amount>>
FlattenAssignments(fa) ==
  IF fa = <<>> THEN <<>>
  ELSE [k \in 1..Len(Head(fa).list) |->
          <<Head(fa).facility_idx, Head(fa).list[k][1], Head(fa).list[k][2]>>]
       \o FlattenAssignments(Tail(fa))

\* the dict appended to solution["assignments"][demand_id] for one pair
AssignmentRecord(facility_idx, demand_idx, assigned_amount) ==
  [facility        |-> facility_points[facility_idx].id,
   fraction        |-> <<assigned_amount, demand_points[demand_idx].demand>>,
   assigned_demand |-> assigned_amount,
   variable_cost   |-> VariableCost(distance_matrix[demand_idx][facility_idx],
                                    assigned_amount)]

\* variant: the lists of an earlier assembly are kept and appended to
BuildAssignmentsNoReset(previous, fa) ==
  LET flat == FlattenAssignments(fa)
      recs == [k \in 1..Len(flat) |->
                 [demand_id |-> demand_points[flat[k][2]].id,
                  rec |-> AssignmentRecord(flat[k][1], flat[k][2], flat[k][3])]]
      Of(id) == SelectSeq(recs, LAMBDA r : r.demand_id = id)
      Old(id) == IF id \in DOMAIN previous THEN previous[id] ELSE <<>>
  IN [id \in {demand_points[i].id : i \in 1..NumPoints} |->
        Old(id) \o [k \in 1..Len(Of(id)) |-> Of(id)[k].rec]]

\* solution["assignments"] = {}, one empty list per demand point, and the
\* loop over facility_assignments
BuildAssignments(previous, fa) ==
  LET flat == FlattenAssignments(fa)
      recs == [k \in 1..Len(flat) |->
                 [demand_id |-> demand_points[flat[k][2]].id,
                  rec |-> AssignmentRecord(flat[k][1], flat[k][2], flat[k][3])]]
      Of(id) == SelectSeq(recs, LAMBDA r : r.demand_id = id)
  IN [id \in {demand_points[i].id : i \in 1..NumPoints} |->
        [k \in 1..Len(Of(id)) |-> Of(id)[k].rec]]

RECURSIVE SumCosts(_)
SumCosts(costs) ==
  IF costs = <<>> THEN ZeroCost ELSE CostAdd(Head(costs), SumCosts(Tail(costs)))

\* variant: the total of an earlier assembly is kept and added to
BuildTotalVariableCostNoReset(fa) ==
  LET flat == FlattenAssignments(fa)
  IN CostAdd(solution.total_variable_cost,
             SumCosts([k \in 1..Len(flat) |->
               VariableCost(distance_matrix[flat[k][2]][flat[k][1]], flat[k][3])]))

\* solution["total_variable_cost"] = 0.0 and its accumulation
BuildTotalVariableCost(fa) ==
  LET flat == FlattenAssignments(fa)
  IN SumCosts([k \in 1..Len(flat) |->
        VariableCost(distance_matrix[flat[k][2]][flat[k][1]], flat[k][3])])

\* _build_solution_structure
BuildSolutionStructure(opened, fa, sol) ==
  [sol EXCEPT
     !.facilities_opened = BuildFacilitiesOpened(sol.facilities_opened, opened),
     !.assignments = BuildAssignments(sol.assignments, fa),
     !.total_variable_cost = BuildTotalVariableCost(fa)]

\* ---------------------------------------------------- local improvement
\* variant: the comparison with the threshold the wrong way round
LowUtilizationInverted(facility_info) ==
  facility_info.used_capacity > 3 * (facility_info.capacity \div 10)

\* utilization < 0.3 with utilization = used_capacity / capacity; every
\* capacity is a multiple of ten ticks, so 0.3 * capacity is exact
LowUtilization(facility_info) ==
  facility_info.used_capacity < 3 * (facility_info.capacity \div 10)

\* the first loop of _local_improvement
FacilitiesToRemove(opened) ==
  LET low == SelectSeq(opened, LowUtilization)
  IN [k \in 1..Len(low) |-> low[k].facility_idx]

\* variant: the candidate itself counts as a facility that can take its load
CanReassignIncludingSelf(opened, j) ==
  LET capacity_to_reassign == DictGet(opened, j).used_capacity
  IN \E k \in 1..Len(opened) :
        opened[k].capacity - opened[k].used_capacity >= capacity_to_reassign

\* the inner loop of _local_improvement that sets can_reassign
CanReassign(opened, j) ==
  LET capacity_to_reassign == DictGet(opened, j).used_capacity
  IN \E k \in 1..Len(opened) :
        /\ opened[k].facility_idx # j
        /\ opened[k].capacity - opened[k].used_capacity >= capacity_to_reassign

\* variant: the fixed cost of the removed facility is added
FixedCostAfterRemovalAdded(total_fixed_cost, facility_info) ==
  CostAdd(total_fixed_cost, facility_info.fixed_cost)

\* solution["total_fixed_cost"] -= opened_facilities[j]["fixed_cost"]
FixedCostAfterRemoval(total_fixed_cost, facility_info) ==
  CostSub(total_fixed_cost, facility_info.fixed_cost)

\* variant: the variable cost is left out of the objective
ObjectiveValueFixedOnly(sol) == sol.total_fixed_cost

\* solution["objective_value"]
ObjectiveValue(sol) == CostAdd(sol.total_fixed_cost, sol.total_variable_cost)

\* ------------------------------------------------------------ the solver
InitialSolution ==
  [status              |-> "heuristic",
   objective_value     |-> ZeroCost,
   facilities_opened   |-> <<>>,
   assignments         |-> <<>>,
   total_fixed_cost    |-> ZeroCost,
   total_variable_cost |-> ZeroCost]

\* The solver module has imported the catalog.  main(): the points are
\* loaded, the distance matrix is computed from their coordinates, and
\* HeuristicSolver(demand_points, facility_points, distance_matrix) keeps the
\* three as given; solve() has not started
Init ==
  /\ \E catalog \in Catalogs, n \in 0..MaxPoints, m \in 0..MaxSites :
       \E d \in [1..n -> DemandValuesOf(catalog)], px \in [1..n -> Positions],
          fx \in [1..m -> Positions] :
          /\ cafeteria_types = catalog
          /\ SumFn([i \in 1..n |-> d[i] \div TicksPerUnit], n) + n <= MaxTotalUnits
          /\ demand_points =
               [i \in 1..n |-> [id |-> i, x |-> px[i], y |-> 0, demand |-> d[i]]]
          /\ facility_points = [j \in 1..m |-> [id |-> j, x |-> fx[j], y |-> 0]]
          /\ distance_matrix =
               CalculateDistanceMatrix(
                 [i \in 1..n |-> [x |-> px[i], y |-> 0]],
                 [j \in 1..m |-> [x |-> fx[j], y |-> 0]])
  /\ pc = "start"
  /\ solution = InitialSolution
  /\ facility_options = <<>>
  /\ opened_facilities = <<>>
  /\ remaining_demand = <<>>
  /\ facility_assignments = <<>>
  /\ opt_idx = 1
  /\ facilities_to_remove = <<>>
  /\ rem_idx = 1

\* fixed_cost / capacity raises ZeroDivisionError: the first loop of
\* _calculate_facility_options reaches a tier of capacity zero
RankingFaults ==
  /\ NumSites > 0
  /\ \E t \in 1..NumTypes : cafeteria_types[t].capacity = 0

\* solve(), lines 46-60: the initial solution is set up, the ranking raises
\* and the exception leaves solve()
SolveFault ==
  /\ pc = "start"
  /\ RankingFaults
  /\ solution' = InitialSolution
  /\ pc' = "error"
  /\ UNCHANGED <<inputs, facility_options, opened_facilities, remaining_demand,
                 facility_assignments, opt_idx, facilities_to_remove, rem_idx>>

\* solve(), lines 46-69: the initial solution, the ranked and sorted
\* options, the empty bookkeeping
SolveStart ==
  /\ pc = "start"
  /\ ~RankingFaults
  /\ solution' = InitialSolution
  /\ facility_options' = SortOptions(CalculateFacilityOptions)
  /\ opened_facilities' = <<>>
  /\ remaining_demand' = [i \in 1..NumPoints |-> demand_points[i].demand]
  /\ facility_assignments' = <<>>
  /\ opt_idx' = 1
  /\ pc' = "construct"
  /\ UNCHANGED <<inputs, facilities_to_remove, rem_idx>>

\* the record of a facility opened for an option
OpenedFacility(option, used_capacity) ==
  [facility_idx  |-> option.facility_idx,
   type          |-> option.type,
   capacity      |-> option.capacity,
   used_capacity |-> used_capacity,
   fixed_cost    |-> option.fixed_cost]

\* variant: the list of the facility is replaced, not extended
AppendAssignmentsReplacing(fa, facility_idx, assignments) ==
  DictSet(fa, [facility_idx |-> facility_idx, list |-> assignments])

\* facility_assignments[facility_idx] with the pairs appended to its list
AppendAssignments(fa, facility_idx, assignments) ==
  LET old == IF DictHas(fa, facility_idx) THEN DictGet(fa, facility_idx).list
             ELSE <<>>
  IN DictSet(fa, [facility_idx |-> facility_idx, list |-> old \o assignments])

\* variant: the test of the returned list is left out
HasAssignmentsAlways(assignments) == TRUE

\* variant: the test of the returned list the wrong way round
HasAssignmentsInverted(assignments) == assignments = <<>>

\* if assignments:
HasAssignments(assignments) == assignments # <<>>

\* variant: the test for an opened site is left out
AlreadyOpenedNever(opened, option) == FALSE

\* if facility_idx in opened_facilities: continue
AlreadyOpened(opened, option) == DictHas(opened, option.facility_idx)

\* construction loop: the site of the option is already opened
ConstructSkip ==
  /\ pc = "construct"
  /\ opt_idx <= Len(facility_options)
  /\ AlreadyOpened(opened_facilities, facility_options[opt_idx])
  /\ opt_idx' = opt_idx + 1
  /\ UNCHANGED <<inputs, pc, solution, facility_options, opened_facilities,
                 remaining_demand, facility_assignments, facilities_to_remove,
                 rem_idx>>

\* construction loop: some demand was assigned, the facility is opened
ConstructOpen ==
  /\ pc = "construct"
  /\ opt_idx <= Len(facility_options)
  /\ LET option == facility_options[opt_idx]
         r == AssignDemandToFacilityWithTracking(option.facility_idx,
                                                 option.capacity,
                                                 remaining_demand)
     IN /\ ~AlreadyOpened(opened_facilities, option)
        /\ HasAssignments(r.assignments)
        /\ opened_facilities' =
             DictSet(opened_facilities,
                     OpenedFacility(option, SumAssigned(r.assignments)))
        /\ solution' = [solution EXCEPT
                          !.total_fixed_cost = CostAdd(@, option.fixed_cost)]
        /\ facility_assignments' =
             DictSet(facility_assignments,
                     [facility_idx |-> option.facility_idx,
                      list |-> r.assignments])
        /\ remaining_demand' = r.remaining_demand
  /\ opt_idx' = opt_idx + 1
  /\ UNCHANGED <<inputs, pc, facility_options, facilities_to_remove, rem_idx>>

\* construction loop: nothing was assignable, the site stays closed
ConstructNoAssign ==
  /\ pc = "construct"
  /\ opt_idx <= Len(facility_options)
  /\ LET option == facility_options[opt_idx]
         r == AssignDemandToFacilityWithTracking(option.facility_idx,
                                                 option.capacity,
                                                 remaining_demand)
     IN /\ ~AlreadyOpened(opened_facilities, option)
        /\ ~HasAssignments(r.assignments)
  /\ opt_idx' = opt_idx + 1
  /\ UNCHANGED <<inputs, pc, solution, facility_options, opened_facilities,
                 remaining_demand, facility_assignments, facilities_to_remove,
                 rem_idx>>

\* the construction loop ends, _ensure_all_demand_satisfied is called
ConstructDone ==
  /\ pc = "construct"
  /\ opt_idx > Len(facility_options)
  /\ pc' = "ensure"
  /\ UNCHANGED <<inputs, solution, facility_options, opened_facilities,
                 remaining_demand, facility_assignments, opt_idx,
                 facilities_to_remove, rem_idx>>

\* _ensure_all_demand_satisfied returns at once: all demand satisfied
EnsureSatisfied ==
  /\ pc = "ensure"
  /\ AllDemandSatisfied(remaining_demand)
  /\ pc' = "build"
  /\ UNCHANGED <<inputs, solution, facility_options, opened_facilities,
                 remaining_demand, facility_assignments, opt_idx,
                 facilities_to_remove, rem_idx>>

\* variant: the loop is started whatever demand remains
EnsureStartUnguarded ==
  /\ pc = "ensure"
  /\ facility_options' = SortOptions(facility_options)
  /\ opt_idx' = 1
  /\ pc' = "complete"
  /\ UNCHANGED <<inputs, solution, opened_facilities, remaining_demand,
                 facility_assignments, facilities_to_remove, rem_idx>>

\* _ensure_all_demand_satisfied sorts the options again and starts its loop
EnsureStart ==
  /\ pc = "ensure"
  /\ ~AllDemandSatisfied(remaining_demand)
  /\ facility_options' = SortOptions(facility_options)
  /\ opt_idx' = 1
  /\ pc' = "complete"
  /\ UNCHANGED <<inputs, solution, opened_facilities, remaining_demand,
                 facility_assignments, facilities_to_remove, rem_idx>>

\* variant: the spare capacity is that of the tier recorded for the site
SpareCapacityOfRecordedTier(option, opened) ==
  DictGet(opened, option.facility_idx).capacity
    - DictGet(opened, option.facility_idx).used_capacity

\* available = capacity - used, for a site that is already opened
SpareCapacity(option, opened) ==
  option.capacity - DictGet(opened, option.facility_idx).used_capacity

\* completion loop, lines 265-281: the assignment against the available
\* capacity, the bookkeeping, and the test that ends the loop
CompleteAssign(option, opened, available) ==
  LET r == IF available > EPS
           THEN AssignDemandToFacilityWithTracking(option.facility_idx,
                                                   available, remaining_demand)
           ELSE [assignments |-> <<>>, remaining_demand |-> remaining_demand]
      info == DictGet(opened, option.facility_idx)
  IN /\ IF HasAssignments(r.assignments)
        THEN /\ opened_facilities' =
                  DictSet(opened,
                          [info EXCEPT !.used_capacity =
                                          @ + SumAssigned(r.assignments)])
             /\ facility_assignments' =
                  AppendAssignments(facility_assignments, option.facility_idx,
                                    r.assignments)
        ELSE /\ opened_facilities' = opened
             /\ UNCHANGED facility_assignments
     /\ remaining_demand' = r.remaining_demand
     /\ IF AllDemandSatisfied(r.remaining_demand)
        THEN pc' = "build" /\ UNCHANGED opt_idx
        ELSE pc' = pc /\ opt_idx' = opt_idx + 1

\* completion loop: the site of the option is opened, its spare capacity
\* against the capacity of the option is used
CompleteUseOpened ==
  /\ pc = "complete"
  /\ opt_idx <= Len(facility_options)
  /\ LET option == facility_options[opt_idx]
     IN /\ DictHas(opened_facilities, option.facility_idx)
        /\ CompleteAssign(option, opened_facilities,
                          SpareCapacity(option, opened_facilities))
  /\ UNCHANGED <<inputs, solution, facility_options, facilities_to_remove,
                 rem_idx>>

\* completion loop: the site of the option is not opened, it is opened now
CompleteOpenNew ==
  /\ pc = "complete"
  /\ opt_idx <= Len(facility_options)
  /\ LET option == facility_options[opt_idx]
     IN /\ ~DictHas(opened_facilities, option.facility_idx)
        /\ solution' = [solution EXCEPT
                          !.total_fixed_cost = CostAdd(@, option.fixed_cost)]
        /\ CompleteAssign(option,
                          DictSet(opened_facilities, OpenedFacility(option, 0)),
                          option.capacity)
  /\ UNCHANGED <<inputs, facility_options, facilities_to_remove, rem_idx>>

\* variant: the loop starts over while demand remains
CompleteDoneRestart ==
  /\ pc = "complete"
  /\ opt_idx > Len(facility_options)
  /\ opt_idx' = 1
  /\ UNCHANGED <<inputs, pc, solution, facility_options, opened_facilities,
                 remaining_demand, facility_assignments, facilities_to_remove,
                 rem_idx>>

\* the completion loop ran out of options
CompleteDone ==
  /\ pc = "complete"
  /\ opt_idx > Len(facility_options)
  /\ pc' = "build"
  /\ UNCHANGED <<inputs, solution, facility_options, opened_facilities,
                 remaining_demand, facility_assignments, opt_idx,
                 facilities_to_remove, rem_idx>>

\* step 5: _build_solution_structure
Build ==
  /\ pc = "build"
  /\ solution' = BuildSolutionStructure(opened_facilities,
                                        facility_assignments, solution)
  /\ pc' = "improve"
  /\ UNCHANGED <<inputs, facility_options, opened_facilities,
                 remaining_demand, facility_assignments, opt_idx,
                 facilities_to_remove, rem_idx>>

\* _local_improvement: the candidates with low utilization are collected
ImproveScan ==
  /\ pc = "improve"
  /\ facilities_to_remove' = FacilitiesToRemove(opened_facilities)
  /\ rem_idx' = 1
  /\ pc' = "remove"
  /\ UNCHANGED <<inputs, solution, facility_options, opened_facilities,
                 remaining_demand, facility_assignments, opt_idx>>

\* the candidate is still opened and another facility could take its load
\* variant: a candidate goes whenever another facility is open, whether or
\* not that one can take its load
RemovableWithoutCheck(opened, j) == DictHas(opened, j) /\ Len(opened) > 1

Removable(opened, j) == DictHas(opened, j) /\ CanReassign(opened, j)

\* variant: the record is deleted and total_fixed_cost is left as it is
RemoveFacilityKeepingCost ==
  /\ pc = "remove"
  /\ rem_idx <= Len(facilities_to_remove)
  /\ Removable(opened_facilities, facilities_to_remove[rem_idx])
  /\ opened_facilities' = DictDel(opened_facilities, facilities_to_remove[rem_idx])
  /\ rem_idx' = rem_idx + 1
  /\ UNCHANGED <<inputs, pc, solution, facility_options, remaining_demand,
                 facility_assignments, opt_idx, facilities_to_remove>>

\* _local_improvement: the candidate is removed
RemoveFacility ==
  /\ pc = "remove"
  /\ rem_idx <= Len(facilities_to_remove)
  /\ LET j == facilities_to_remove[rem_idx]
     IN /\ Removable(opened_facilities, j)
        /\ solution' = [solution EXCEPT !.total_fixed_cost =
                          FixedCostAfterRemoval(@, DictGet(opened_facilities, j))]
        /\ opened_facilities' = DictDel(opened_facilities, j)
  /\ rem_idx' = rem_idx + 1
  /\ UNCHANGED <<inputs, pc, facility_options, remaining_demand,
                 facility_assignments, opt_idx, facilities_to_remove>>

\* _local_improvement: the candidate stays
KeepFacility ==
  /\ pc = "remove"
  /\ rem_idx <= Len(facilities_to_remove)
  /\ ~Removable(opened_facilities, facilities_to_remove[rem_idx])
  /\ rem_idx' = rem_idx + 1
  /\ UNCHANGED <<inputs, pc, solution, facility_options, opened_facilities,
                 remaining_demand, facility_assignments, opt_idx,
                 facilities_to_remove>>

\* _local_improvement returns
ImproveDone ==
  /\ pc = "remove"
  /\ rem_idx > Len(facilities_to_remove)
  /\ pc' = "rebuild"
  /\ UNCHANGED <<inputs, solution, facility_options, opened_facilities,
                 remaining_demand, facility_assignments, opt_idx,
                 facilities_to_remove, rem_idx>>

\* the solution is rebuilt after the improvement
Rebuild ==
  /\ pc = "rebuild"
  /\ solution' = BuildSolutionStructure(opened_facilities,
                                        facility_assignments, solution)
  /\ pc' = "objective"
  /\ UNCHANGED <<inputs, facility_options, opened_facilities,
                 remaining_demand, facility_assignments, opt_idx,
                 facilities_to_remove, rem_idx>>

\* lines 126-143: the objective value and the metadata (the processing time
\* is a clock reading and is left out); solve() returns the solution
Finish ==
  /\ pc = "objective"
  /\ solution' = [status              |-> solution.status,
                  objective_value     |-> ObjectiveValue(solution),
                  facilities_opened   |-> solution.facilities_opened,
                  assignments         |-> solution.assignments,
                  total_fixed_cost    |-> solution.total_fixed_cost,
                  total_variable_cost |-> solution.total_variable_cost,
                  gap                 |-> "None",
                  solver_name         |-> "Heuristica"]
  /\ pc' = "done"
  /\ UNCHANGED <<inputs, facility_options, opened_facilities,
                 remaining_demand, facility_assignments, opt_idx,
                 facilities_to_remove, rem_idx>>

Next ==
  \/ SolveFault
  \/ SolveStart
  \/ ConstructSkip
  \/ ConstructOpen
  \/ ConstructNoAssign
  \/ ConstructDone
  \/ EnsureSatisfied
  \/ EnsureStart
  \/ CompleteUseOpened
  \/ CompleteOpenNew
  \/ CompleteDone
  \/ Build
  \/ ImproveScan
  \/ RemoveFacility
  \/ KeepFacility
  \/ ImproveDone
  \/ Rebuild
  \/ Finish

Spec == Init /\ [][Next]_vars

\* The inputs of the runs checked for progress: at most two demand points
\* and two sites, the sites ten apart.
FairInput ==
  /\ NumPoints <= 2
  /\ NumSites <= 2
  /\ \A j \in 1..NumSites : facility_points[j].x = 10 * (j - 1)

FairInit == Init /\ FairInput

\* solve() runs in one thread that is never suspended for good: a step that
\* can be taken is taken
FairSpec == FairInit /\ [][Next]_vars /\ WF_vars(Next)

\* ------------------------------------------------------------ properties
\* the phases of solve() after construction and completion
AfterCompletion == {"build", "improve", "remove", "rebuild", "objective", "done"}

\* the demand recorded for point i in the per-facility assignment lists
TrackedAssigned(i) ==
  LET flat == FlattenAssignments(facility_assignments)
  IN SumFn([k \in 1..Len(flat) |-> IF flat[k][2] = i THEN flat[k][3] ELSE 0],
           Len(flat))

\* the sum of assigned_demand over the AssignmentRecords of point i
SolutionAssigned(i) ==
  LET recs == solution.assignments[demand_points[i].id]
  IN SumFn([k \in 1..Len(recs) |-> recs[k].assigned_demand], Len(recs))

\* the completion pass added load to a site that construction had opened:
\* some point occurs twice in the list of one facility
ToppedUp ==
  \E k \in 1..Len(facility_assignments) :
     \E a, b \in 1..Len(facility_assignments[k].list) :
        a < b /\ facility_assignments[k].list[a][1] = facility_assignments[k].list[b][1]

\* LocalImprovement has removed a facility
SomeFacilityRemoved ==
  \E k \in 1..Len(facilities_to_remove) :
     ~DictHas(opened_facilities, facilities_to_remove[k])

\* C1: every opened facility has used_capacity <= capacity + 1e-6, the
\* capacity being that of the tier recorded for it, in every state of solve()
C1_CapacityRespect ==
  \A k \in 1..Len(opened_facilities) :
     opened_facilities[k].used_capacity <= opened_facilities[k].capacity + EPS

\* the capacities of the catalog, in whole units and in ticks
SumTierCapacityUnits ==
  SumFn([t \in 1..NumTypes |-> cafeteria_types[t].capacity], NumTypes)

MaxTierCapacity ==
  LET M[t \in 0..NumTypes] ==
        IF t = 0 THEN 0 ELSE Max(M[t - 1], cafeteria_types[t].capacity)
  IN M[NumTypes] * TicksPerUnit

\* point i is covered within 1e-6: by the bookkeeping, and by the
\* AssignmentRecords once the solution is assembled
Covered(i) ==
  /\ remaining_demand[i] <= EPS
  /\ demand_points[i].demand - TrackedAssigned(i) <= EPS
  /\ pc \in (AfterCompletion \ {"build"}) =>
        demand_points[i].demand - SolutionAssigned(i) <= EPS

\* C2 as stated: when the capacities summed over every site and tier reach
\* the total demand, every demand point is covered after construction and
\* completion
C2_CoverageAggregate ==
  (/\ pc \in AfterCompletion
   /\ (TotalDemand + TicksPerUnit - 1) \div TicksPerUnit
         <= NumSites * SumTierCapacityUnits)
    => \A i \in 1..NumPoints : Covered(i)

\* every site can be loaded to the largest tier less the tolerance
CoverageFeasible == TotalDemand <= NumSites * (MaxTierCapacity - EPS)

\* C2 amended: when the total demand is at most the number of sites times
\* (the largest tier capacity - 1e-6), every demand point is covered within
\* 1e-6 after construction and completion
C2_Coverage ==
  (pc \in AfterCompletion /\ CoverageFeasible)
    => \A i \in 1..NumPoints : Covered(i)

C2_Witness ==
  /\ pc = "done"
  /\ CoverageFeasible
  /\ ToppedUp
  /\ \A i \in 1..NumPoints : Covered(i)

\* the returned dict says that demand is unmet: a status other than the
\* constant one, or a field for the unserved demand
ReportsUnmetDemand(sol) ==
  \/ sol.status # "heuristic"
  \/ \E f \in DOMAIN sol : f \in {"unserved_demand", "unmet_demand", "infeasible"}

\* C3: a solution returned with remaining demand > 1e-6 reports it
C3_InfeasibilitySurfaced ==
  (pc = "done" /\ TotalRemaining(remaining_demand) > EPS)
    => ReportsUnmetDemand(solution)

\* C4: in the returned solution the assigned_demand of the AssignmentRecords
\* of a demand point sums to at most its demand
C4_DemandConservation ==
  pc = "done" =>
    \A i \in 1..NumPoints : SolutionAssigned(i) <= demand_points[i].demand

C4_Witness ==
  /\ pc = "done"
  /\ \E i \in 1..NumPoints :
        /\ Len(solution.assignments[demand_points[i].id]) >= 2
        /\ SolutionAssigned(i) = demand_points[i].demand

\* the facilities that were open when LocalImprovement started, as listed by
\* the solution assembled just before it: their site, capacity and load
SiteIndex(id) == CHOOSE j \in 1..NumSites : facility_points[j].id = id

EntryCapacity(entry) ==
  LET t == CHOOSE t \in 1..NumTypes : cafeteria_types[t].type = entry.type
  IN cafeteria_types[t].capacity * TicksPerUnit

EntryUsed(entry) ==
  LET j == SiteIndex(entry.location)
  IN IF DictHas(facility_assignments, j)
     THEN SumAssigned(DictGet(facility_assignments, j).list)
     ELSE 0

C6_ObjectiveConsistency ==
  pc = "done" =>
    solution.objective_value =
      CostAdd(solution.total_fixed_cost, solution.total_variable_cost)

C6_Witness ==
  /\ pc = "done"
  /\ SomeFacilityRemoved
  /\ solution.total_variable_cost # ZeroCost

\* C7: from the solution assembled before LocalImprovement to the returned
\* one, no step raises total_fixed_cost or total_fixed_cost +
\* total_variable_cost, and the returned objective_value is that sum
C7_MonotonicImprovement ==
  [][\/ pc \notin {"improve", "remove", "rebuild", "objective"}
     \/ /\ CostLeq(solution'.total_fixed_cost, solution.total_fixed_cost)
        /\ CostLeq(CostAdd(solution'.total_fixed_cost,
                           solution'.total_variable_cost),
                   CostAdd(solution.total_fixed_cost,
                           solution.total_variable_cost))
        /\ pc' = "done" =>
             CostLeq(solution'.objective_value,
                     CostAdd(solution.total_fixed_cost,
                             solution.total_variable_cost))
    ]_vars

C7_Witness ==
  /\ pc = "objective"
  /\ SomeFacilityRemoved

\* C8: the opened-facility set holds at most one record per site and the
\* facilities_opened list holds no two entries with the same location
C8_OneTierPerSite ==
  /\ \A a, b \in 1..Len(opened_facilities) :
        a # b => opened_facilities[a].facility_idx # opened_facilities[b].facility_idx
  /\ \A a, b \in 1..Len(solution.facilities_opened) :
        a # b => solution.facilities_opened[a].location
                   # solution.facilities_opened[b].location

C8_Witness ==
  /\ pc = "done"
  /\ Len(solution.facilities_opened) >= 2
  /\ ToppedUp

\* C9: every opened facility has had a positive amount of demand assigned
C9_OnlyLoadedFacilities ==
  \A k \in 1..Len(opened_facilities) :
     /\ opened_facilities[k].used_capacity > 0
     /\ DictHas(facility_assignments, opened_facilities[k].facility_idx)

\* every tier of the catalog has a capacity above zero
PositiveCapacities == \A t \in 1..NumTypes : cafeteria_types[t].capacity > 0

\* the keys of the dict solve() returns
SolutionKeys ==
  {"status", "objective_value", "facilities_opened", "assignments",
   "total_fixed_cost", "total_variable_cost", "gap", "solver_name"}

\* C11: with an empty demand-point list or an empty facility-site list (and
\* a catalog of tiers with capacity above zero) solve() raises no error, and
\* the solution it returns is well formed: every key is there, no facility
\* is opened, every demand point has an empty assignment list, and
\* total_fixed_cost, total_variable_cost and objective_value are 0
C11_EmptyInput ==
  ((NumPoints = 0 \/ NumSites = 0) /\ PositiveCapacities) =>
    /\ pc # "error"
    /\ pc = "done" =>
         /\ DOMAIN solution = SolutionKeys
         /\ solution.facilities_opened = <<>>
         /\ DOMAIN solution.assignments =
              {demand_points[i].id : i \in 1..NumPoints}
         /\ \A i \in 1..NumPoints :
              solution.assignments[demand_points[i].id] = <<>>
         /\ solution.total_fixed_cost = ZeroCost
         /\ solution.total_variable_cost = ZeroCost
         /\ solution.objective_value = ZeroCost

C11_Witness ==
  /\ pc = "done"
  /\ NumPoints = 0
  /\ NumSites > 0
  /\ PositiveCapacities
  /\ solution.facilities_opened = <<>>

\* the place of a tier in the catalog
TierIndex(type) == CHOOSE t \in 1..NumTypes : cafeteria_types[t].type = type

\* C12: the option list holds exactly one option per site and tier; the
\* cost_benefit of each is fixed_cost / capacity + 0.1 * avg_distance *
\* distance_cost_factor (here multiplied out by capacity, 10, the number of
\* demand points and the scale of the stored score); the list is in
\* non-decreasing cost_benefit order, and options of equal score stand in
\* the order of their enumeration, site first, then tier in catalog order
C12_OptionRanking ==
  pc \notin {"start", "error"} =>
    LET n == Len(facility_options)
        Site(k) == facility_options[k].facility_idx
        Tier(k) == TierIndex(facility_options[k].type)
    IN /\ n = NumSites * NumTypes
       /\ \A j \in 1..NumSites, t \in 1..NumTypes :
            Cardinality({k \in 1..n : Site(k) = j /\ Tier(k) = t}) = 1
       /\ \A k \in 1..n :
            LET config == cafeteria_types[Tier(k)]
            IN /\ facility_options[k].capacity = config.capacity * TicksPerUnit
               /\ facility_options[k].fixed_cost = Cost(config.fixed_cost, 0)
               /\ facility_options[k].cost_benefit * config.capacity =
                    (config.fixed_cost * 10 * AvgDivisor
                       + SumDistance(Site(k)) * DISTANCE_COST_FACTOR
                           * config.capacity) * CostScale
       /\ \A a, b \in 1..n :
            a < b =>
              \/ facility_options[a].cost_benefit < facility_options[b].cost_benefit
              \/ /\ facility_options[a].cost_benefit = facility_options[b].cost_benefit
                 /\ \/ Site(a) < Site(b)
                    \/ (Site(a) = Site(b) /\ Tier(a) < Tier(b))

C12_Witness ==
  /\ pc = "construct"
  /\ opt_idx = 1
  /\ \E a, b \in 1..Len(facility_options) :
        /\ a < b
        /\ facility_options[a].cost_benefit = facility_options[b].cost_benefit
        /\ facility_options[a].type # facility_options[b].type
  /\ \E a, b \in 1..Len(facility_options) :
        /\ a < b
        /\ facility_options[a].facility_idx > facility_options[b].facility_idx
        /\ facility_options[a].type = facility_options[b].type
        /\ facility_options[a].cost_benefit < facility_options[b].cost_benefit

\* C13: solve() comes to an end on every input, by returning or, on a
\* catalog with a tier of capacity zero, by raising; while the construction
\* loop or the completion loop runs it moves on by exactly one option per
\* step, so each processes every ranked option at most once
C13_Termination ==
  /\ [][(pc \in {"construct", "complete"} /\ pc' = pc) =>
          /\ opt_idx <= Len(facility_options)
          /\ opt_idx' = opt_idx + 1
          /\ facility_options' = facility_options]_vars
  /\ <>(pc \in {"done", "error"})

C13_Witness ==
  /\ pc = "done"
  /\ Len(facility_options) > 0
  /\ opt_idx = Len(facility_options) + 1
  /\ TotalRemaining(remaining_demand) > EPS
  /\ TotalDemand > NumSites * MaxTierCapacity

\* the AssignmentRecords of demand point i in the solution
RecordsOf(i) == solution.assignments[demand_points[i].id]

\* C14: in the returned solution every AssignmentRecord has variable_cost =
\* distance_matrix[demand][facility] * distance_cost_factor *
\* assigned_demand (whole part and millionths), and total_variable_cost is
\* the sum of variable_cost over all AssignmentRecords
C14_VariableCost ==
  pc = "done" =>
    /\ \A i \in 1..NumPoints :
         \A k \in 1..Len(RecordsOf(i)) :
            LET rec == RecordsOf(i)[k]
                rate == distance_matrix[i][SiteIndex(rec.facility)]
                          * DISTANCE_COST_FACTOR
                units == rec.assigned_demand \div TicksPerUnit
                ticks == rec.assigned_demand % TicksPerUnit
            IN /\ rec.variable_cost[1]
                    = rate * units + ((rate * ticks) \div TicksPerUnit)
               /\ rec.variable_cost[2] = (rate * ticks) % TicksPerUnit
    /\ solution.total_variable_cost =
         SumCosts([i \in 1..NumPoints |->
                     SumCosts([k \in 1..Len(RecordsOf(i)) |->
                                 RecordsOf(i)[k].variable_cost])])

C14_Witness ==
  /\ pc = "done"
  /\ \E i \in 1..NumPoints :
        /\ Len(RecordsOf(i)) >= 2
        /\ \A k \in 1..Len(RecordsOf(i)) :
              RecordsOf(i)[k].variable_cost # ZeroCost
        /\ \E k \in 1..Len(RecordsOf(i)) :
              RecordsOf(i)[k].variable_cost[2] # 0
  /\ \E i \in 1..NumPoints : Len(RecordsOf(i)) = 1

\* C15: no division faults, whatever the catalog and however many demand
\* points there are: solve() never ends by raising
C15_DivisionGuarded == pc # "error"

\* C16, the instance: one demand point of demand 100, one site at distance
\* 10, the catalog of the single tier {capacity 200, fixed_cost 1000}
SingleFacilityInstance ==
  /\ cafeteria_types = SINGLE_TIER_TYPES
  /\ NumPoints = 1
  /\ NumSites = 1
  /\ demand_points[1].demand = 100 * TicksPerUnit
  /\ distance_matrix[1][1] = 10

\* C16: on the instance the facility is opened with used_capacity 100,
\* total_variable_cost is 1000 and objective_value is 2000; and whenever the
\* total demand (above the tolerance) is at most the capacity of the
\* first-ranked option, the returned solution opens exactly that option, and
\* its load is the total demand, to within the tolerance
C16_SingleFacility ==
  pc = "done" =>
    /\ SingleFacilityInstance =>
         /\ Len(opened_facilities) = 1
         /\ opened_facilities[1].used_capacity = 100 * TicksPerUnit
         /\ Len(solution.facilities_opened) = 1
         /\ solution.total_variable_cost = Cost(1000, 0)
         /\ solution.objective_value = Cost(2000, 0)
    /\ (/\ NumSites > 0
        /\ TotalDemand > EPS
        /\ TotalDemand <= facility_options[1].capacity) =>
         /\ Len(solution.facilities_opened) = 1
         /\ solution.facilities_opened[1].location
              = facility_points[facility_options[1].facility_idx].id
         /\ solution.facilities_opened[1].type = facility_options[1].type
         /\ Len(opened_facilities) = 1
         /\ opened_facilities[1].used_capacity >= TotalDemand - EPS

\* a step of the construction or the completion loop on an option: the only
\* steps in which the assigner is called
OptionStep == pc \in {"construct", "complete"} /\ opt_idx <= Len(facility_options)

\* the site of the option of the step
CallSite == facility_options[opt_idx].facility_idx

\* the pairs the assigner returned in the step: those the step added to the
\* assignment list of the site
CallPairs ==
  LET old == IF DictHas(facility_assignments, CallSite)
             THEN DictGet(facility_assignments, CallSite).list ELSE <<>>
      new == IF DictHas(facility_assignments', CallSite)
             THEN DictGet(facility_assignments', CallSite).list ELSE <<>>
  IN SubSeq(new, Len(old) + 1, Len(new))

\* the pairs of the step go to points that had remaining demand > 1e-6, in
\* ascending distance to the site
ServedNearestFirst ==
  /\ \A a \in 1..Len(CallPairs) : remaining_demand[CallPairs[a][1]] > EPS
  /\ \A a, b \in 1..Len(CallPairs) :
        a < b => distance_matrix[CallPairs[a][1]][CallSite]
                   <= distance_matrix[CallPairs[b][1]][CallSite]

\* no point strictly farther from the site than point i received demand
NoneFartherServed(i) ==
  \A k \in 1..NumPoints :
     distance_matrix[k][CallSite] > distance_matrix[i][CallSite]
       => remaining_demand'[k] = remaining_demand[k]

\* C17 as stated: in one assigner call the points are served in ascending
\* distance, and when a point keeps remaining demand > 0 that it had at
\* entry, no point strictly farther from the site received demand
C17_NearestFirstAnyRemainder ==
  [][OptionStep =>
       /\ ServedNearestFirst
       /\ \A i \in 1..NumPoints :
            (remaining_demand[i] > 0 /\ remaining_demand'[i] > 0)
              => NoneFartherServed(i)]_vars

\* C17 amended: in one assigner call the points with remaining demand > 1e-6
\* are served in ascending distance, and when a point that had remaining
\* demand > 1e-6 at entry keeps remaining demand > 0, no point strictly
\* farther from the site received demand
C17_NearestFirst ==
  [][OptionStep =>
       /\ ServedNearestFirst
       /\ \A i \in 1..NumPoints :
            (remaining_demand[i] > EPS /\ remaining_demand'[i] > 0)
              => NoneFartherServed(i)]_vars

\* construction has just served the nearer of two points in part and left
\* the farther one, which was eligible too, untouched
C17_Witness ==
  /\ pc = "construct"
  /\ opt_idx = 2
  /\ Len(facility_assignments) = 1
  /\ LET j == facility_assignments[1].facility_idx
         list == facility_assignments[1].list
     IN \E i, k \in 1..NumPoints :
           /\ list = << <<i, demand_points[i].demand - remaining_demand[i]>> >>
           /\ remaining_demand[i] > EPS
           /\ distance_matrix[k][j] > distance_matrix[i][j]
           /\ demand_points[k].demand > EPS
           /\ remaining_demand[k] = demand_points[k].demand

\* the capacity the assigner is called with in the step: that of the option,
\* less the recorded load when the completion loop meets an opened site
CallAvailable ==
  IF pc = "complete" /\ DictHas(opened_facilities, CallSite)
  THEN facility_options[opt_idx].capacity
         - DictGet(opened_facilities, CallSite).used_capacity
  ELSE facility_options[opt_idx].capacity

\* the step calls the assigner
CallMade ==
  /\ OptionStep
  /\ IF pc = "construct" THEN ~DictHas(opened_facilities, CallSite)
                         ELSE CallAvailable > EPS

\* the remaining demand, at entry, of the points the call can serve
EligibleRemaining ==
  SumFn([i \in 1..NumPoints |->
           IF remaining_demand[i] > EPS THEN remaining_demand[i] ELSE 0],
        NumPoints)

\* what the pairs of the call give to point i
CallAmount(i) ==
  SumFn([a \in 1..Len(CallPairs) |->
           IF CallPairs[a][1] = i THEN CallPairs[a][2] ELSE 0],
        Len(CallPairs))

\* each pair carries min(remaining demand of its point, capacity available
\* at that moment); every point loses exactly what it received; at most one
\* pair carries less than the remaining demand of its point
PairsAsAssigned ==
  /\ \A a \in 1..Len(CallPairs) :
        CallPairs[a][2] =
          Min(remaining_demand[CallPairs[a][1]],
              CallAvailable - SumAssigned(SubSeq(CallPairs, 1, a - 1)))
  /\ \A i \in 1..NumPoints :
        remaining_demand'[i] = remaining_demand[i] - CallAmount(i)
  /\ Cardinality({a \in 1..Len(CallPairs) :
                    CallPairs[a][2] < remaining_demand[CallPairs[a][1]]}) <= 1

\* C18 as stated: the pairs of an assigner call are as above and their
\* amounts sum to min(available capacity at entry, total remaining demand of
\* the eligible points)
C18_AssignedAmountsExact ==
  [][CallMade =>
       /\ PairsAsAssigned
       /\ SumAssigned(CallPairs) = Min(CallAvailable, EligibleRemaining)]_vars

\* C18 amended: the pairs of an assigner call are as above and their amounts
\* sum to min(available capacity at entry, total remaining demand of the
\* eligible points), or to at most 1e-6 less
C18_AssignedAmounts ==
  [][CallMade =>
       /\ PairsAsAssigned
       /\ SumAssigned(CallPairs) <= Min(CallAvailable, EligibleRemaining)
       /\ SumAssigned(CallPairs) >= Min(CallAvailable, EligibleRemaining) - EPS]_vars

\* a call of the completion loop has stopped with 1e-6 of capacity left and
\* an eligible point unserved
C18_Witness ==
  /\ pc = "complete"
  /\ opt_idx > 1
  /\ \E i \in 1..NumPoints : remaining_demand[i] > EPS
  /\ \E k \in 1..Len(opened_facilities) :
        /\ opened_facilities[k].facility_idx
             = facility_options[opt_idx - 1].facility_idx
        /\ opened_facilities[k].used_capacity
             = facility_options[opt_idx - 1].capacity - EPS
        /\ opened_facilities[k].capacity < facility_options[opt_idx - 1].capacity

\* C19: once a site has an opened facility, the construction loop skips
\* every later option of the site, changing nothing; in every step of
\* solve() the record of the site keeps its tier, capacity and fixed cost
\* and its load does not drop; and only LocalImprovement takes a record away
C19_FirstTierWins ==
  [][\A k \in 1..Len(opened_facilities) :
        LET info == opened_facilities[k]
            j == info.facility_idx
        IN /\ (pc = "construct" /\ OptionStep /\ CallSite = j) =>
                /\ opt_idx' = opt_idx + 1
                /\ UNCHANGED <<opened_facilities, remaining_demand,
                               facility_assignments, solution>>
           /\ pc = "construct" => DictHas(opened_facilities', j)
                                    /\ DictGet(opened_facilities', j) = info
           /\ DictHas(opened_facilities', j) =>
                /\ DictGet(opened_facilities', j).type = info.type
                /\ DictGet(opened_facilities', j).capacity = info.capacity
                /\ DictGet(opened_facilities', j).fixed_cost = info.fixed_cost
                /\ DictGet(opened_facilities', j).used_capacity
                     >= info.used_capacity
           /\ ~DictHas(opened_facilities', j) => pc = "remove"
    ]_vars

\* the completion loop has added load to a site that construction opened,
\* beyond the capacity of the tier recorded for it
C19_Witness ==
  /\ pc = "complete"
  /\ \E k \in 1..Len(opened_facilities) :
        /\ opened_facilities[k].used_capacity > opened_facilities[k].capacity
        /\ opened_facilities[k].type = facility_options[1].type
        /\ opened_facilities[k].facility_idx = facility_options[1].facility_idx

\* C20: when construction left total remaining demand <= 1e-6 the completion
\* pass changes nothing, otherwise its loop is started; the loop processes
\* an option only while the total remaining demand is > 1e-6, and the step
\* that brings it to <= 1e-6 is the last of the loop
C20_CompletionOnlyWhileUnmet ==
  [][/\ (pc = "ensure" /\ TotalRemaining(remaining_demand) <= EPS) =>
          /\ pc' = "build"
          /\ UNCHANGED <<opened_facilities, solution, facility_assignments,
                         remaining_demand>>
     /\ (pc = "ensure" /\ TotalRemaining(remaining_demand) > EPS) =>
          pc' = "complete"
     /\ (pc = "complete" /\ OptionStep) =>
          /\ TotalRemaining(remaining_demand) > EPS
          /\ TotalRemaining(remaining_demand') <= EPS => pc' = "build"
    ]_vars

\* the completion loop has met the demand and stopped with options left
C20_Witness ==
  /\ pc = "build"
  /\ opt_idx < Len(facility_options)
  /\ TotalRemaining(remaining_demand) <= EPS
  /\ TotalDemand > EPS
  /\ ToppedUp

\* the records that a step takes out of the opened-facility set
RemovedRecords ==
  SelectSeq(opened_facilities,
            LAMBDA info : ~DictHas(opened_facilities', info.facility_idx))

\* C21: a facility that LocalImprovement removes has utilization < 0.30
\* (the same at entry and at the removal, since LocalImprovement changes no
\* load), and at the moment of the removal some other facility that is still
\* open has capacity - used_capacity >= its used_capacity; so a facility
\* with utilization >= 0.30 and the only open facility are never removed
C21_RemovesOnlyJustified ==
  [][\A r \in 1..Len(RemovedRecords) :
        LET gone == RemovedRecords[r]
        IN /\ pc = "remove"
           /\ Len(RemovedRecords) = 1
           /\ gone.used_capacity < 3 * (gone.capacity \div 10)
           /\ Len(opened_facilities) >= 2
           /\ \E k \in 1..Len(opened_facilities) :
                 /\ opened_facilities[k].facility_idx # gone.facility_idx
                 /\ DictHas(opened_facilities', opened_facilities[k].facility_idx)
                 /\ opened_facilities[k].capacity
                      - opened_facilities[k].used_capacity >= gone.used_capacity
    ]_vars

\* LocalImprovement has removed one candidate and kept a later one, which
\* was then the only open facility
C21_Witness ==
  /\ pc = "remove"
  /\ rem_idx = 3
  /\ Len(facilities_to_remove) = 2
  /\ ~DictHas(opened_facilities, facilities_to_remove[1])
  /\ DictHas(opened_facilities, facilities_to_remove[2])
  /\ Len(opened_facilities) = 1

\* the records that a step leaves in the opened-facility set, as they were
SurvivingRecords ==
  SelectSeq(opened_facilities,
            LAMBDA info : DictHas(opened_facilities', info.facility_idx))

\* the fixed costs of the records that a step removes
RemovedFixedCost ==
  SumCosts([r \in 1..Len(RemovedRecords) |-> RemovedRecords[r].fixed_cost])

AssembledOnce ==
  BuildSolutionStructure(opened_facilities, facility_assignments, solution)

\* ... and applied again to the result, the bookkeeping unchanged
AssembledTwice ==
  BuildSolutionStructure(opened_facilities, facility_assignments, AssembledOnce)

\* C23: _build_solution_structure is idempotent: a second call on the same
\* bookkeeping returns the same facilities_opened, assignments and
\* total_variable_cost (so right after a call of solve() another call would
\* change nothing), and a call leaves total_fixed_cost as it is
C23_AssemblerIdempotent ==
  /\ pc \in AfterCompletion =>
       /\ AssembledTwice = AssembledOnce
       /\ AssembledOnce.total_fixed_cost = solution.total_fixed_cost
  /\ pc \in {"improve", "objective"} => AssembledOnce = solution

\* the second call of solve() has run, after LocalImprovement changed the
\* opened-facility set, on a solution that has records and a variable cost
C23_Witness ==
  /\ pc = "objective"
  /\ SomeFacilityRemoved
  /\ solution.total_variable_cost # ZeroCost
  /\ Len(solution.facilities_opened) = 1

\* every demand is a whole number
IntegerInput ==
  \A i \in 1..NumPoints : demand_points[i].demand % TicksPerUnit = 0

\* the opened facilities that have capacity left
WithSpareCapacity ==
  {k \in 1..Len(opened_facilities) :
     opened_facilities[k].capacity - opened_facilities[k].used_capacity > 0}

\* C24: for integer demands and positive integer tier capacities, on entry
\* to LocalImprovement at most one opened facility has capacity -
\* used_capacity > 0 and every opened facility has used_capacity > 0, and no
\* step of LocalImprovement changes the opened-facility set or
\* total_fixed_cost
C24_NoRemovalOnIntegers ==
  [][(IntegerInput /\ PositiveCapacities) =>
       /\ pc = "improve" =>
            /\ Cardinality(WithSpareCapacity) <= 1
            /\ \A k \in 1..Len(opened_facilities) :
                  opened_facilities[k].used_capacity > 0
       /\ (pc = "improve" \/ pc = "remove") =>
            /\ opened_facilities' = opened_facilities
            /\ solution'.total_fixed_cost = solution.total_fixed_cost
    ]_vars

\* integer demands, two facilities open, and LocalImprovement has gone
\* through a candidate with utilization < 0.30 that it kept
C24_Witness ==
  /\ IntegerInput
  /\ pc = "rebuild"
  /\ facilities_to_remove # <<>>
  /\ Len(opened_facilities) = 2
  /\ Cardinality(WithSpareCapacity) = 1

\* the sites named by the entries of solution.facilities_opened
OpenedLocations ==
  {solution.facilities_opened[k].location :
     k \in 1..Len(solution.facilities_opened)}

\* C25: in the solution solve() returns, every AssignmentRecord names a
\* facility that is in the facilities_opened list of that solution
C25_RecordsNameOpened ==
  pc = "done" =>
    \A i \in 1..NumPoints :
       \A k \in 1..Len(RecordsOf(i)) :
          RecordsOf(i)[k].facility \in OpenedLocations

\* C26: for integer demands and positive integer tier capacities, whenever
\* the completion loop runs every site is already open, so its branch that
\* opens a facility and adds a fixed cost is never taken: a step of the
\* completion loop leaves the set of opened sites and total_fixed_cost alone
C26_CompletionOpensNothing ==
  [][(IntegerInput /\ PositiveCapacities /\ pc = "complete") =>
       /\ \A j \in 1..NumSites : DictHas(opened_facilities, j)
       /\ \A j \in 1..NumSites : DictHas(opened_facilities', j)
       /\ Len(opened_facilities') = Len(opened_facilities)
       /\ solution' = solution
    ]_vars

\* integer demands, and the completion loop has added load to a site that
\* construction had opened
C26_Witness ==
  /\ IntegerInput
  /\ pc = "build"
  /\ ToppedUp
  /\ \A j \in 1..NumSites : DictHas(opened_facilities, j)

\* the demand assigned over all facilities, and the load of site j, by the
\* per-facility assignment lists
TotalAssigned == SumFn([i \in 1..NumPoints |-> TrackedAssigned(i)], NumPoints)

SiteLoad(j) ==
  IF DictHas(facility_assignments, j)
  THEN SumAssigned(DictGet(facility_assignments, j).list)
  ELSE 0

\* C27 as stated: after construction and completion the demand assigned
\* over all facilities is exactly min(total demand, number of sites *
\* largest tier capacity)
C27_AssignedTotalExact ==
  pc \in AfterCompletion =>
    TotalAssigned = Min(TotalDemand, NumSites * MaxTierCapacity)

\* C27 amended: after construction and completion no site is loaded beyond
\* the largest tier capacity, and the demand assigned over all facilities is
\* at most min(total demand, number of sites * largest tier capacity) and
\* falls short of it by at most 1e-6 per demand point or 1e-6 per site
C27_AssignedTotal ==
  pc \in AfterCompletion =>
    /\ \A j \in 1..NumSites : SiteLoad(j) <= MaxTierCapacity
    /\ TotalAssigned <= Min(TotalDemand, NumSites * MaxTierCapacity)
    /\ TotalAssigned >= Min(TotalDemand - NumPoints * EPS,
                            NumSites * (MaxTierCapacity - EPS))

\* more demand than two sites can take: both were opened with the
\* first-ranked tier and topped up to the largest one
C27_Witness ==
  /\ pc = "build"
  /\ NumSites = 2
  /\ TotalDemand > NumSites * MaxTierCapacity
  /\ ToppedUp
  /\ \A j \in 1..NumSites :
        /\ SiteLoad(j) > DictGet(opened_facilities, j).capacity
        /\ SiteLoad(j) >= MaxTierCapacity - EPS

\* the first option of site j in the ranking
FirstRankedOption(j) ==
  facility_options[CHOOSE k \in 1..Len(facility_options) :
                     /\ facility_options[k].facility_idx = j
                     /\ \A l \in 1..(k - 1) : facility_options[l].facility_idx # j]

\* C28: an opened facility is recorded with the tier of the first-ranked
\* option of its site, in the bookkeeping and in the solution; with the
\* configured catalog that tier is 'media'
C28_FirstRankedTier ==
  /\ \A k \in 1..Len(opened_facilities) :
        LET info == opened_facilities[k]
        IN /\ info.type = FirstRankedOption(info.facility_idx).type
           /\ info.capacity = FirstRankedOption(info.facility_idx).capacity
           /\ cafeteria_types = CAFETERIA_TYPES => info.type = "media"
  /\ pc = "done" =>
       \A k \in 1..Len(solution.facilities_opened) :
          LET entry == solution.facilities_opened[k]
          IN /\ entry.type = FirstRankedOption(SiteIndex(entry.location)).type
             /\ cafeteria_types = CAFETERIA_TYPES => entry.type = "media"

\* the configured catalog, two facilities returned, both loaded beyond the
\* capacity of 'media' through the 'grande' options of their sites
C28_Witness ==
  /\ pc = "done"
  /\ cafeteria_types = CAFETERIA_TYPES
  /\ Len(solution.facilities_opened) = 2
  /\ \A k \in 1..Len(opened_facilities) :
        /\ opened_facilities[k].used_capacity > 550 * TicksPerUnit
        /\ opened_facilities[k].type = "media"

\* C29: once solve() has set up its bookkeeping, after every step and for
\* every demand point, remaining_demand is >= 0 and not above what it was
\* before the step, and remaining_demand plus the amounts recorded for the
\* point in the per-facility assignment lists is the demand of the point
C29_RemainingDemandAccounting ==
  [][(pc # "start") =>
       \A i \in 1..NumPoints :
          /\ remaining_demand'[i] >= 0
          /\ remaining_demand'[i] <= remaining_demand[i]
          /\ remaining_demand'[i] + TrackedAssigned(i)' = demand_points[i].demand
    ]_vars

\* a point served in part by construction and in part by the completion
\* pass, at the same site, and still not served in full
C29_Witness ==
  /\ pc = "build"
  /\ ToppedUp
  /\ \E i \in 1..NumPoints :
        /\ remaining_demand[i] > EPS
        /\ TrackedAssigned(i) > 0
        /\ \E k \in 1..Len(facility_assignments) :
              Cardinality({a \in 1..Len(facility_assignments[k].list) :
                             facility_assignments[k].list[a][1] = i}) >= 2

\* the fixed costs of the entries of solution.facilities_opened, summed
ListedFixedCost ==
  SumCosts([k \in 1..Len(solution.facilities_opened) |->
              solution.facilities_opened[k].fixed_cost])

\* C30: in the solution solve() returns, total_fixed_cost is the sum of
\* fixed_cost over the entries of facilities_opened
C30_FixedCostIsSumOfOpened ==
  pc = "done" => solution.total_fixed_cost = ListedFixedCost

\* a returned solution with one facility left after LocalImprovement removed
\* another: its fixed cost is the total
C30_Witness ==
  /\ pc = "done"
  /\ SomeFacilityRemoved
  /\ Len(solution.facilities_opened) = 1
  /\ solution.total_fixed_cost = solution.facilities_opened[1].fixed_cost
  /\ solution.total_fixed_cost # ZeroCost

====
